---- MODULE Spec2Model ----
(***************************************************************************)
(* Car exchange platform (exchangefinal.py): agencies upload spreadsheets  *)
(* of offered and wanted cars into a document collection; the "Find        *)
(* Exchange Cycles" handler loads every upload, builds the demand graph,   *)
(* selects exchange cycles with the greedy or the exhaustive strategy and  *)
(* describes them.                                                         *)
(*                                                                         *)
(* Representation choices.                                                 *)
(*  - A spreadsheet row is a record with the columns it has: MODELO and    *)
(*    VERSION, or MODELO alone when the sheet has no VERSION column.       *)
(*  - The string  m + " - " + v  is the pair <<m, v>>; strip, upper and    *)
(*    lower act on the words of the model's vocabulary.                    *)
(*  - A raised KeyError ends the handler in pc = "failed".                 *)
(*  - Agency ids are only compared for equality, so agencies are numbered  *)
(*    in the order of their first upload.                                  *)
(***************************************************************************)
EXTENDS Integers, Sequences, FiniteSets, TLC

\* ------------------------------------------------------------------ bounds
\* Uploads made by agencies that have uploaded before (all agencies together).
MaxReuploads == 1
\* Uploads that may arrive while the handler sleeps before its retry.
MaxSleepUploads == 1

\* The agencies of the model: three, the fewest that can form an exchange cycle.
AgencyIds == {1, 2, 3}

\* Default of the strategies' max_len parameter.
max_len == 10

\* ------------------------------------------------------------- vocabulary
Models == {"civic", "Golf ", "POLO"}

Strip(s) ==
  CASE s = "Golf " -> "Golf"
    [] OTHER -> s

Upper(s) ==
  CASE s = "civic" -> "CIVIC"
    [] s = "Golf" -> "GOLF"
    [] s = "lx" -> "LX"
    [] OTHER -> s

LowerWord(s) ==
  CASE s = "CIVIC" -> "civic"
    [] s = "GOLF" -> "golf"
    [] s = "POLO" -> "polo"
    [] s = "LX" -> "lx"
    [] OTHER -> s

\* str.lower() of a full name  m + " - " + v.
Lower(fn) == <<LowerWord(fn[1]), LowerWord(fn[2])>>

HasKey(row, k) == k \in DOMAIN row

Row(m) == [MODELO |-> m, VERSION |-> "lx"]
\* A row of a sheet that has no VERSION column.
RowNoVersion(m) == [MODELO |-> m]

\* ------------------------------------------------------------- the inputs
\* A sheet of the uploaded workbook: rows with MODELO and VERSION.
Sheet(ms) == [i \in 1..Len(ms) |-> Row(ms[i])]

SheetNoVersion(ms) == [i \in 1..Len(ms) |-> RowNoVersion(ms[i])]

\* The workbooks an agency may upload, (Offers sheet, Wants sheet): the three of a
\* ring, three that offer and want the same two cars, one that lists a want twice,
\* and one whose Offers sheet has no VERSION column.
Workbooks ==
  {[offers |-> Sheet(<<"civic">>), wants |-> Sheet(<<"Golf ">>)],
   [offers |-> Sheet(<<"Golf ">>), wants |-> Sheet(<<"POLO">>)],
   [offers |-> Sheet(<<"POLO">>), wants |-> Sheet(<<"civic">>)],
   [offers |-> Sheet(<<"civic", "Golf ">>), wants |-> Sheet(<<"civic", "Golf ">>)],
   [offers |-> Sheet(<<"Golf ", "POLO">>), wants |-> Sheet(<<"Golf ", "POLO">>)],
   [offers |-> Sheet(<<"civic", "POLO">>), wants |-> Sheet(<<"civic", "POLO">>)],
   [offers |-> Sheet(<<"civic">>), wants |-> Sheet(<<"Golf ", "Golf ">>)],
   [offers |-> SheetNoVersion(<<"civic">>), wants |-> Sheet(<<"Golf ">>)]}

\* The workbook an agency uploads when it uploads again.
ReuploadWorkbooks ==
  {[offers |-> Sheet(<<"POLO">>), wants |-> Sheet(<<"civic">>)]}

AgencyName(id) == <<"agency", id>>

\* ------------------------------------------------------------------ state
VARIABLES
  mongo,         \* the collection: documents in insertion order
  pc,            \* position of the Find Exchange Cycles handler
  fetches,       \* calls of load_all_requests_from_mongo made by the handler
  slept,         \* whether time.sleep(10) has run
  sleep_uploads, \* uploads that arrived during the sleep
  all_requests,  \* the handler's list of requests
  G,             \* the demand graph
  started,       \* exhaustive: start nodes already taken; greedy: nodes of finished components
  start,         \* exhaustive: current start node (0: none)
  stack,         \* exhaustive: the DFS stack of <<node, path>>
  all_cycles,    \* accepted cycles
  used_nodes,    \* participants of accepted cycles
  used_offers,   \* (giver id, full name) pairs marked by the conflict check
  cand,          \* the candidate cycle the last step examined and its verdict
  df_all,        \* describe_cycles: all described cycles
  df_user        \* describe_cycles: the filtered view

vars == <<mongo, pc, fetches, slept, sleep_uploads, all_requests, G,
          started, start, stack, all_cycles, used_nodes, used_offers, cand,
          df_all, df_user>>

\* ----------------------------------------------------------- persistence
\* update_one({"agency_id": id}, {$push: uploads, $setOnInsert: ...}, upsert).
save_user_data_to_mongo(coll, offers, wants, name, agency_id) ==
  LET up == [offers |-> offers, wants |-> wants]
      hit == {i \in 1..Len(coll) : coll[i].agency_id = agency_id}
  IN IF hit # {}
       THEN LET i == CHOOSE j \in hit : \A k \in hit : j <= k
            IN [coll EXCEPT ![i].uploads = Append(@, up)]
       ELSE Append(coll, [agency_id |-> agency_id, name |-> name, uploads |-> <<up>>])

\* Lines 55-60: full_name is added to a row that has MODELO and VERSION.
with_full_name(row) ==
  IF ~HasKey(row, "full_name") /\ HasKey(row, "MODELO") /\ HasKey(row, "VERSION")
    THEN [MODELO |-> row.MODELO, VERSION |-> row.VERSION,
          full_name |-> <<Upper(Strip(row.MODELO)), Upper(Strip(row.VERSION))>>]
    ELSE row

RECURSIVE FlattenUploads(_, _, _)
FlattenUploads(user, k, acc) ==
  IF k > Len(user.uploads) THEN acc
  ELSE LET upload == user.uploads[k]
           req == [id |-> user.agency_id, name |-> user.name,
                   offers |-> [i \in 1..Len(upload.offers) |-> with_full_name(upload.offers[i])],
                   wants |-> [i \in 1..Len(upload.wants) |-> with_full_name(upload.wants[i])]]
       IN FlattenUploads(user, k + 1, Append(acc, req))

RECURSIVE LoadFrom(_, _, _)
LoadFrom(coll, u, acc) ==
  IF u > Len(coll) THEN acc
  ELSE LoadFrom(coll, u + 1, FlattenUploads(coll[u], 1, acc))

load_all_requests_from_mongo(coll) == LoadFrom(coll, 1, <<>>)

\* ---------------------------------------------------------- demand graph
\* Line 81: any(o['full_name'].lower() == w['full_name'].lower() for o ... for w ...),
\* the pairs taken offer-major; a row without full_name raises KeyError when reached.
RECURSIVE any_match(_, _, _)
any_match(offers, wants, k) ==
  IF k > Len(offers) * Len(wants) THEN "False"
  ELSE LET o == offers[((k - 1) \div Len(wants)) + 1]
           w == wants[((k - 1) % Len(wants)) + 1]
       IN IF ~HasKey(o, "full_name") \/ ~HasKey(w, "full_name") THEN "KeyError"
          ELSE IF Lower(o.full_name) = Lower(w.full_name) THEN "True"
          ELSE any_match(offers, wants, k + 1)

InSeq(x, s) == \E i \in 1..Len(s) : s[i] = x

SeqSet(s) == {s[i] : i \in 1..Len(s)}

\* G.add_node: a node keeps the place of its first insertion.
RECURSIVE add_nodes(_, _, _)
add_nodes(requests, k, nodes) ==
  IF k > Len(requests) THEN nodes
  ELSE add_nodes(requests, k + 1,
                 IF InSeq(requests[k].id, nodes) THEN nodes ELSE Append(nodes, requests[k].id))

\* G.add_edge: successors are kept in the order the edges were first added.
add_edge(succ, a, b) ==
  IF InSeq(b, succ[a]) THEN succ ELSE [succ EXCEPT ![a] = Append(@, b)]

\* Lines 77-82: every ordered pair of requests, req_a-major.
RECURSIVE add_edges(_, _, _)
add_edges(requests, p, succ) ==
  LET n == Len(requests)
  IN IF p >= n * n THEN [ok |-> TRUE, succ |-> succ]
     ELSE LET req_a == requests[(p \div n) + 1]
              req_b == requests[(p % n) + 1]
          IN IF req_a.id = req_b.id THEN add_edges(requests, p + 1, succ)
             ELSE LET m == any_match(req_a.offers, req_b.wants, 1)
                  IN IF m = "KeyError" THEN [ok |-> FALSE, succ |-> succ]
                     ELSE IF m = "True"
                       THEN add_edges(requests, p + 1, add_edge(succ, req_a.id, req_b.id))
                       ELSE add_edges(requests, p + 1, succ)

NoGraph == [ok |-> FALSE, nodes |-> <<>>, succ |-> <<>>]

build_graph(requests) ==
  LET nodes == add_nodes(requests, 1, <<>>)
      built == add_edges(requests, 0, [n \in SeqSet(nodes) |-> <<>>])
  IN IF built.ok THEN [ok |-> TRUE, nodes |-> nodes, succ |-> built.succ] ELSE NoGraph

HasEdge(g, a, b) == a \in DOMAIN g.succ /\ InSeq(b, g.succ[a])

\* Line 201: {r['id']: r for r in all_requests}: the last request of an id wins.
make_request_map(requests) ==
  [id \in {requests[i].id : i \in 1..Len(requests)} |->
     requests[CHOOSE i \in 1..Len(requests) :
                /\ requests[i].id = id
                /\ \A j \in 1..Len(requests) : requests[j].id = id => j <= i]]

\* The handler's request_map: built once from all_requests, which no later line changes.
request_map == make_request_map(all_requests)

\* ------------------------------------------------------------- components
\* nx.connected_components(G.to_undirected()): breadth-first from each node not yet
\* seen, in node order.
RECURSIVE Reach(_, _)
Reach(g, S) ==
  LET T == S \cup {u \in SeqSet(g.nodes) : \E v \in S : HasEdge(g, u, v) \/ HasEdge(g, v, u)}
  IN IF T = S THEN S ELSE Reach(g, T)

RECURSIVE components_from(_, _, _, _)
components_from(g, k, seen, acc) ==
  IF k > Len(g.nodes) THEN acc
  ELSE IF g.nodes[k] \in seen THEN components_from(g, k + 1, seen, acc)
  ELSE LET c == Reach(g, {g.nodes[k]})
       IN components_from(g, k + 1, seen \cup c, Append(acc, c))

connected_components(g) == components_from(g, 1, {}, <<>>)

\* The components the strategy's outer loop has not finished: those with nodes not done.
Pending(g, done) ==
  LET cs == connected_components(g)
  IN {i \in 1..Len(cs) : ~(cs[i] \subseteq done)}

\* The component the outer loop is in: the first one not finished.
CurrentComponent(g, done) ==
  LET cs == connected_components(g)
      first == CHOOSE i \in 1..Len(cs) :
                 /\ ~(cs[i] \subseteq done)
                 /\ \A j \in 1..(i - 1) : cs[j] \subseteq done
  IN cs[first]

\* ---------------------------------------------------------- conflict check
\* violates_offer_conflict (lines 85-98): every matching (offer, want) of every
\* consecutive pair; the first key already in used_offers ends the call with True,
\* the keys added before it staying in the set.
RECURSIVE conflict_scan(_, _, _, _, _)
conflict_scan(cycle, rmap, used, i, k) ==
  IF i > Len(cycle) - 1 THEN [result |-> "False", used |-> used]
  ELSE LET giver == rmap[cycle[i]]
           receiver == rmap[cycle[i + 1]]
       IN IF k > Len(giver.offers) * Len(receiver.wants)
            THEN conflict_scan(cycle, rmap, used, i + 1, 1)
            ELSE LET offer == giver.offers[((k - 1) \div Len(receiver.wants)) + 1]
                     want == receiver.wants[((k - 1) % Len(receiver.wants)) + 1]
                 IN IF ~HasKey(offer, "full_name") \/ ~HasKey(want, "full_name")
                      THEN [result |-> "KeyError", used |-> used]
                    ELSE IF Lower(offer.full_name) = Lower(want.full_name)
                      THEN LET key == <<cycle[i], offer.full_name>>
                           IN IF key \in used
                                THEN [result |-> "True", used |-> used]
                                ELSE conflict_scan(cycle, rmap, used \cup {key}, i, k + 1)
                    ELSE conflict_scan(cycle, rmap, used, i, k + 1)

violates_offer_conflict(cycle, rmap, used) == conflict_scan(cycle, rmap, used, 1, 1)

\* Mutant of node_committed: the test of the committed nodes is lost.
node_committed_never(cycle, nodes) == FALSE

\* Lines 111 and 131: any(node in used_nodes for node in cycle).
node_committed(cycle, nodes) == \E i \in 1..Len(cycle) : cycle[i] \in nodes

\* used_nodes.update(cycle)
commit_nodes(nodes, cycle) == nodes \cup SeqSet(cycle)

\* Mutant of consider: the candidate is taken whatever the two checks say.
consider_unguarded(cycle, rmap, st) ==
  LET v == violates_offer_conflict(cycle, rmap, st.used_offers)
  IN [all_cycles |-> Append(st.all_cycles, cycle),
      used_nodes |-> st.used_nodes \cup SeqSet(cycle),
      used_offers |-> v.used,
      verdict |-> IF v.result = "KeyError" THEN "KeyError" ELSE "accepted"]

\* Lines 111-114 and 131-134: the candidate is taken if none of its nodes is
\* committed and the conflict check, which runs only then, returns False.
consider(cycle, rmap, st) ==
  IF node_committed(cycle, st.used_nodes)
    THEN [st EXCEPT !.verdict = "node_committed"]
    ELSE LET v == violates_offer_conflict(cycle, rmap, st.used_offers)
         IN IF v.result = "KeyError"
              THEN [st EXCEPT !.used_offers = v.used, !.verdict = "KeyError"]
            ELSE IF v.result = "True"
              THEN [st EXCEPT !.used_offers = v.used, !.verdict = "offer_conflict"]
            ELSE [all_cycles |-> Append(st.all_cycles, cycle),
                  used_nodes |-> commit_nodes(st.used_nodes, cycle),
                  used_offers |-> v.used,
                  verdict |-> "accepted"]

\* ------------------------------------------------------- exhaustive search
\* Mutant of closes: a path of two nodes may close.
closes_from_two(neighbor, s, path) == neighbor = s /\ Len(path) >= 2

\* Line 129: the successor closes a cycle.
closes(neighbor, s, path) == neighbor = s /\ Len(path) >= 3

\* Lines 128-137: the successors of the popped node in order; the first one that
\* closes a cycle ends the loop, the others are pushed when new to the path.
RECURSIVE visit_successors(_, _, _, _, _)
visit_successors(nbrs, k, s, path, acc) ==
  IF k > Len(nbrs) THEN [stack |-> acc, cycle |-> <<>>]
  ELSE IF closes(nbrs[k], s, path) THEN [stack |-> acc, cycle |-> Append(path, s)]
  ELSE IF ~InSeq(nbrs[k], path) /\ Len(path) < max_len
    THEN visit_successors(nbrs, k + 1, s, path, Append(acc, [node |-> nbrs[k], path |-> Append(path, nbrs[k])]))
  ELSE visit_successors(nbrs, k + 1, s, path, acc)

\* G.subgraph(component).copy(): the successors of a node inside the component.
RECURSIVE restrict(_, _, _, _)
restrict(nbrs, k, component, acc) ==
  IF k > Len(nbrs) THEN acc
  ELSE restrict(nbrs, k + 1, component,
                IF nbrs[k] \in component THEN Append(acc, nbrs[k]) ELSE acc)

successors(g, component, node) == restrict(g.succ[node], 1, component, <<>>)

\* ---------------------------------------------------------- greedy search
NodeIndex(g, n) == CHOOSE i \in 1..Len(g.nodes) : g.nodes[i] = n

RECURSIVE paths_from(_, _, _, _)
paths_from(g, component, paths, n) ==
  IF n = 0 \/ paths = {} THEN paths
  ELSE LET longer == {Append(q, w) : q \in paths, w \in component}
           next == {q \in longer : /\ HasEdge(g, q[Len(q) - 1], q[Len(q)])
                                   /\ ~InSeq(q[Len(q)], SubSeq(q, 1, Len(q) - 1))}
       IN paths \cup paths_from(g, component, next, n - 1)

\* nx.simple_cycles(subgraph): every elementary circuit once, as the list of its
\* distinct nodes, the first node not repeated at the end (networkx 2 and later,
\* which the use of subgraph.nodes as a property requires). The rotation networkx
\* returns is not fixed by the code; each circuit is listed from its earliest node.
simple_cycles(g, component) ==
  {q \in paths_from(g, component, {<<v>> : v \in component}, Cardinality(component)) :
     /\ HasEdge(g, q[Len(q)], q[1])
     /\ \A i \in 2..Len(q) : NodeIndex(g, q[1]) < NodeIndex(g, q[i])}

\* Line 108: [c for c in cycles if len(c) >= 3 and c[0] == c[-1]]
keep_closed(cycles) == {c \in cycles : Len(c) >= 3 /\ c[1] = c[Len(c)]}

RECURSIVE Orders(_)
Orders(S) ==
  IF S = {} THEN {<<>>}
  ELSE UNION {{<<x>> \o q : q \in Orders(S \ {x})} : x \in S}

\* Line 109: cycles.sort(key=len, reverse=True); cycles of one length keep the
\* order simple_cycles produced them in, which the code does not fix.
sorted_by_length(cycles) ==
  {q \in Orders(cycles) : \A i \in 1..(Len(q) - 1) : Len(q[i]) >= Len(q[i + 1])}

\* Lines 110-114.
RECURSIVE greedy_scan(_, _, _, _)
greedy_scan(cycles, k, rmap, st) ==
  IF k > Len(cycles) \/ st.verdict = "KeyError" THEN st
  ELSE greedy_scan(cycles, k + 1, rmap, consider(cycles[k], rmap, st))

\* --------------------------------------------------------------- describer
\* The id the filtered view is taken for (line 163: if 0 in cycle).
SelfId == 0

\* Lines 154-155: next((o for o in offers for w in wants if ...), None)
RECURSIVE first_match(_, _, _)
first_match(offers, wants, k) ==
  IF k > Len(offers) * Len(wants) THEN [kind |-> "None"]
  ELSE LET o == offers[((k - 1) \div Len(wants)) + 1]
           w == wants[((k - 1) % Len(wants)) + 1]
       IN IF ~HasKey(o, "full_name") \/ ~HasKey(w, "full_name") THEN [kind |-> "KeyError"]
          ELSE IF Lower(o.full_name) = Lower(w.full_name) THEN [kind |-> "offer", offer |-> o]
          ELSE first_match(offers, wants, k + 1)

\* Lines 149-158: one line per step that has a matching offer.
RECURSIVE describe_steps(_, _, _, _)
describe_steps(cycle, rmap, i, description) ==
  IF i > Len(cycle) - 1 THEN [ok |-> TRUE, description |-> description]
  ELSE LET giver == rmap[cycle[i]]
           receiver == rmap[cycle[i + 1]]
           m == first_match(giver.offers, receiver.wants, 1)
       IN IF m.kind = "KeyError" THEN [ok |-> FALSE, description |-> description]
          ELSE IF m.kind = "offer"
            THEN describe_steps(cycle, rmap, i + 1,
                   Append(description, [giver |-> giver.name, asset |-> m.offer.full_name,
                                        receiver |-> receiver.name]))
          ELSE describe_steps(cycle, rmap, i + 1, description)

\* Line 163: the cycle goes to the filtered view.
in_user_view(cycle) == InSeq(SelfId, cycle)

\* Lines 144-166; cycle_id counts from 0.
RECURSIVE describe_from(_, _, _, _)
describe_from(cycles, rmap, n, out) ==
  IF n > Len(cycles) \/ ~out.ok THEN out
  ELSE LET cycle == cycles[n]
       IN IF Len(cycle) < 3 \/ cycle[1] # cycle[Len(cycle)]
            THEN describe_from(cycles, rmap, n + 1, out)
            ELSE LET d == describe_steps(cycle, rmap, 1, <<>>)
                     row == [cycle_id |-> n - 1, exchange_path |-> d.description]
                 IN IF ~d.ok THEN [out EXCEPT !.ok = FALSE]
                    ELSE describe_from(cycles, rmap, n + 1,
                           [ok |-> TRUE,
                            all_cycles |-> Append(out.all_cycles, row),
                            user_cycles |-> IF in_user_view(cycle)
                                              THEN Append(out.user_cycles, row)
                                              ELSE out.user_cycles])

describe_cycles(cycles, rmap) ==
  describe_from(cycles, rmap, 1, [ok |-> TRUE, all_cycles |-> <<>>, user_cycles |-> <<>>])

\* ----------------------------------------------------------------- actions
NoCand == [cycle |-> <<>>, verdict |-> "none"]

TotalUploads(coll) ==
  LET RECURSIVE sum(_)
      sum(i) == IF i = 0 THEN 0 ELSE Len(coll[i].uploads) + sum(i - 1)
  IN sum(Len(coll))

Init ==
  /\ mongo = <<>>
  /\ pc = "idle"
  /\ fetches = 0
  /\ slept = FALSE
  /\ sleep_uploads = 0
  /\ all_requests = <<>>
  /\ G = NoGraph
  /\ started = {}
  /\ start = 0
  /\ stack = <<>>
  /\ all_cycles = <<>>
  /\ used_nodes = {}
  /\ used_offers = {}
  /\ cand = NoCand
  /\ df_all = <<>>
  /\ df_user = <<>>

\* The Upload File handler (lines 179-188) with a name, an id and a file given.
\* Uploads made once the handler has its requests no longer reach it and are left out.
Upload ==
  /\ pc \in {"idle", "sleeping"}
  /\ pc = "sleeping" => sleep_uploads < MaxSleepUploads
  /\ \E agency_id \in AgencyIds, wb \in Workbooks :
       /\ agency_id <= Len(mongo) + 1
       /\ agency_id <= Len(mongo) =>
            /\ TotalUploads(mongo) - Len(mongo) < MaxReuploads
            /\ wb \in ReuploadWorkbooks
       /\ mongo' = save_user_data_to_mongo(mongo, wb.offers, wb.wants,
                                           AgencyName(agency_id), agency_id)
  /\ sleep_uploads' = IF pc = "sleeping" THEN sleep_uploads + 1 ELSE sleep_uploads
  /\ UNCHANGED <<pc, fetches, slept, all_requests, G, started, start, stack,
                 all_cycles, used_nodes, used_offers, cand, df_all, df_user>>

\* Lines 195-198: the button is pressed and the requests are loaded; an empty list
\* sends the handler to sleep.
FirstFetch ==
  /\ pc = "idle"
  /\ all_requests' = load_all_requests_from_mongo(mongo)
  /\ fetches' = fetches + 1
  /\ pc' = IF all_requests' = <<>> THEN "sleeping" ELSE "loaded"
  /\ UNCHANGED <<mongo, slept, sleep_uploads, G, started, start, stack,
                 all_cycles, used_nodes, used_offers, cand, df_all, df_user>>

\* Line 198: time.sleep(10) returns.
WakeUp ==
  /\ pc = "sleeping"
  /\ slept' = TRUE
  /\ pc' = "woken"
  /\ UNCHANGED <<mongo, fetches, sleep_uploads, all_requests, G, started,
                 start, stack, all_cycles, used_nodes, used_offers, cand, df_all, df_user>>

\* Mutant of RetryFetch: an empty retry sends the handler back to sleep.
RetryFetch_again ==
  /\ pc = "woken"
  /\ all_requests' = load_all_requests_from_mongo(mongo)
  /\ fetches' = fetches + 1
  /\ pc' = IF all_requests' = <<>> THEN "sleeping" ELSE "loaded"
  /\ UNCHANGED <<mongo, slept, sleep_uploads, G, started, start, stack,
                 all_cycles, used_nodes, used_offers, cand, df_all, df_user>>

\* Line 199: the one retry.
RetryFetch ==
  /\ pc = "woken"
  /\ all_requests' = load_all_requests_from_mongo(mongo)
  /\ fetches' = fetches + 1
  /\ pc' = "loaded"
  /\ UNCHANGED <<mongo, slept, sleep_uploads, G, started, start, stack,
                 all_cycles, used_nodes, used_offers, cand, df_all, df_user>>

\* Lines 201-207: request_map, the graph and the strategy chosen by the radio button.
BuildGraph ==
  /\ pc = "loaded"
  /\ G' = build_graph(all_requests)
  /\ \E algo_choice \in {"greedy", "exhaustive"} :
       pc' = IF G'.ok THEN algo_choice ELSE "failed"
  /\ UNCHANGED <<mongo, fetches, slept, sleep_uploads, all_requests, started, start, stack,
                 all_cycles, used_nodes, used_offers, cand, df_all, df_user>>

\* Lines 105-114: one component of the greedy strategy.
GreedyComponent ==
  /\ pc = "greedy"
  /\ Pending(G, started) # {}
  /\ LET component == CurrentComponent(G, started)
         cycles == keep_closed(simple_cycles(G, component))
     IN \E order \in sorted_by_length(cycles) :
          LET st == greedy_scan(order, 1, request_map,
                                [all_cycles |-> all_cycles, used_nodes |-> used_nodes,
                                 used_offers |-> used_offers, verdict |-> "none"])
          IN /\ all_cycles' = st.all_cycles
             /\ used_nodes' = st.used_nodes
             /\ used_offers' = st.used_offers
             /\ pc' = IF st.verdict = "KeyError" THEN "failed" ELSE pc
             /\ started' = started \cup component
  /\ UNCHANGED <<mongo, fetches, slept, sleep_uploads, all_requests, G, start,
                 stack, cand, df_all, df_user>>

\* Lines 124-125: the next start node of the current component. subgraph.nodes
\* follows a set's iteration order, so any node not yet taken may come next.
BeginStart ==
  /\ pc = "exhaustive"
  /\ stack = <<>>
  /\ Pending(G, started) # {}
  /\ \E s \in CurrentComponent(G, started) \ started :
       /\ start' = s
       /\ stack' = <<[node |-> s, path |-> <<s>>]>>
       /\ started' = started \cup {s}
  /\ cand' = NoCand
  /\ UNCHANGED <<mongo, pc, fetches, slept, sleep_uploads, all_requests, G,
                 all_cycles, used_nodes, used_offers, df_all, df_user>>

\* Lines 126-137: one turn of the while loop.
PopStep ==
  /\ pc = "exhaustive"
  /\ stack # <<>>
  /\ LET top == stack[Len(stack)]
         r == visit_successors(successors(G, Reach(G, {start}), top.node), 1, start,
                               top.path, SubSeq(stack, 1, Len(stack) - 1))
         st == IF r.cycle = <<>>
                 THEN [all_cycles |-> all_cycles, used_nodes |-> used_nodes,
                       used_offers |-> used_offers, verdict |-> "none"]
                 ELSE consider(r.cycle, request_map,
                               [all_cycles |-> all_cycles, used_nodes |-> used_nodes,
                                used_offers |-> used_offers, verdict |-> "none"])
     IN /\ stack' = r.stack
        /\ cand' = [cycle |-> r.cycle, verdict |-> st.verdict]
        /\ all_cycles' = st.all_cycles
        /\ used_nodes' = st.used_nodes
        /\ used_offers' = st.used_offers
        /\ pc' = IF st.verdict = "KeyError" THEN "failed" ELSE pc
  /\ UNCHANGED <<mongo, fetches, slept, sleep_uploads, all_requests, G,
                 started, start, df_all, df_user>>

\* Line 209: the accepted cycles are described.
Describe ==
  /\ pc \in {"greedy", "exhaustive"}
  /\ stack = <<>>
  /\ Pending(G, started) = {}
  /\ LET d == describe_cycles(all_cycles, request_map)
     IN /\ df_all' = d.all_cycles
        /\ df_user' = d.user_cycles
        /\ pc' = IF d.ok THEN "done" ELSE "failed"
  /\ UNCHANGED <<mongo, fetches, slept, sleep_uploads, all_requests, G,
                 started, start, stack, all_cycles, used_nodes, used_offers, cand>>

Next ==
  \/ Upload
  \/ FirstFetch
  \/ WakeUp
  \/ RetryFetch
  \/ BuildGraph
  \/ GreedyComponent
  \/ BeginStart
  \/ PopStep
  \/ Describe

Spec == Init /\ [][Next]_vars

\* ------------------------------------------------------------------ claims
\* The participants of a cycle, its closing repetition of the first id left out.
Participants(cycle) == {cycle[i] : i \in 1..(Len(cycle) - 1)}

\* The gifts of a cycle: for each step that has one, the giver with the first of
\* its offers that matches a want of the receiver.
GiftsOf(cycle) ==
  {<<cycle[i], first_match(request_map[cycle[i]].offers,
                           request_map[cycle[i + 1]].wants, 1).offer.full_name>> :
     i \in {j \in 1..(Len(cycle) - 1) :
              first_match(request_map[cycle[j]].offers,
                          request_map[cycle[j + 1]].wants, 1).kind = "offer"}}

\* C1: participant at-most-once. At every point of a run, under either strategy,
\* no participant id occurs in two different accepted cycles.
C1_ParticipantAtMostOnce ==
  \A i, j \in 1..Len(all_cycles) :
    i # j => Participants(all_cycles[i]) \cap Participants(all_cycles[j]) = {}

\* A cycle is accepted, and a different candidate through the same participants,
\* which the conflict check would let pass, is turned down for its committed nodes.
C1_Witness ==
  /\ Len(all_cycles) >= 1
  /\ cand.verdict = "node_committed"
  /\ SeqSet(cand.cycle) # {}
  /\ Participants(cand.cycle) = Participants(all_cycles[1])
  /\ cand.cycle \notin {all_cycles[1]}
  /\ violates_offer_conflict(cand.cycle, request_map, used_offers).result = "False"

\* C2: asset at-most-once. No (participant id, asset key) pair is the gift of a
\* step in more than one accepted cycle of the run.
C2_AssetAtMostOnce ==
  \A i, j \in 1..Len(all_cycles) :
    i # j => GiftsOf(all_cycles[i]) \cap GiftsOf(all_cycles[j]) = {}

\* A cycle with a gift at each of its three steps is accepted, and a later candidate
\* that would give one of the same gifts is turned down.
C2_Witness ==
  /\ Len(all_cycles) = 1
  /\ Cardinality(GiftsOf(all_cycles[1])) = 3
  /\ cand.verdict = "node_committed"
  /\ GiftsOf(cand.cycle) \cap GiftsOf(all_cycles[1]) # {}

\* C3: closure. Every accepted cycle is [p0, ..., pk-1, p0] with k >= 3 pairwise
\* distinct participants, and each consecutive pair is an edge of the demand graph.
C3_Closure ==
  \A n \in 1..Len(all_cycles) :
    LET c == all_cycles[n]
    IN /\ Len(c) >= 4
       /\ c[1] = c[Len(c)]
       /\ \A i, j \in 1..(Len(c) - 1) : i # j => c[i] # c[j]
       /\ \A i \in 1..(Len(c) - 1) : HasEdge(G, c[i], c[i + 1])

\* The run has ended with an accepted cycle in a graph that also holds a two-cycle.
C3_Witness ==
  /\ pc = "done"
  /\ Len(all_cycles) >= 1
  /\ \E a, b \in AgencyIds : a # b /\ HasEdge(G, a, b) /\ HasEdge(G, b, a)

\* The agency's request offers exactly the car o and wants exactly the car w.
Trades(id, o, w) ==
  /\ id \in DOMAIN request_map
  /\ Len(request_map[id].offers) = 1
  /\ Len(request_map[id].wants) = 1
  /\ HasKey(request_map[id].offers[1], "full_name")
  /\ request_map[id].offers[1].full_name = <<o, "LX">>
  /\ request_map[id].wants[1].full_name = <<w, "LX">>

\* C4: the three-party ring. For the feed A offers X wants Y, B offers Y wants Z,
\* C offers Z wants X (one upload each) the run ends with exactly one accepted
\* cycle, [A,B,C,A] or a rotation of it, under the greedy and the exhaustive strategy.
C4_ThreePartyRing ==
  \A a, b, c \in AgencyIds :
    ( /\ pc = "done"
      /\ Len(all_requests) = 3
      /\ Cardinality({a, b, c}) = 3
      /\ Trades(a, "CIVIC", "GOLF")
      /\ Trades(b, "GOLF", "POLO")
      /\ Trades(c, "POLO", "CIVIC") )
    => /\ Len(all_cycles) = 1
       /\ all_cycles[1] \in {<<a, b, c, a>>, <<b, c, a, b>>, <<c, a, b, c>>}

\* The cycle a row of the full view describes.
CycleOf(row) == all_cycles[row.cycle_id + 1]

\* C5: complete description. Every accepted cycle with k participants is described
\* by exactly k lines, one per consecutive (giver, receiver) pair in order, each
\* naming an asset the giver's record offers and the receiver's record wants.
C5_CompleteDescription ==
  pc = "done" =>
    /\ Len(df_all) = Len(all_cycles)
    /\ \A n \in 1..Len(df_all) :
         LET c == CycleOf(df_all[n])
             path == df_all[n].exchange_path
         IN /\ Len(path) = Len(c) - 1
            /\ \A i \in 1..Len(path) :
                 /\ path[i].giver = request_map[c[i]].name
                 /\ path[i].receiver = request_map[c[i + 1]].name
                 /\ \E o \in SeqSet(request_map[c[i]].offers) :
                      HasKey(o, "full_name") /\ o.full_name = path[i].asset
                 /\ \E w \in SeqSet(request_map[c[i + 1]].wants) :
                      HasKey(w, "full_name") /\ Lower(w.full_name) = Lower(path[i].asset)

\* A request holds a row for which no full name could be computed.
HasMalformedRow(requests) ==
  \E n \in 1..Len(requests) :
    \/ \E o \in SeqSet(requests[n].offers) : ~HasKey(o, "full_name")
    \/ \E w \in SeqSet(requests[n].wants) : ~HasKey(w, "full_name")

\* C6: malformed asset records never fail a run. With a row that lacks model or
\* version among the requests, graph building and cycle selection raise no error.
C6_MalformedNeverFails ==
  HasMalformedRow(all_requests) => pc # "failed"

\* The rows of the full view whose cycle contains the participant id.
RowsWith(id) ==
  {df_all[n] : n \in {m \in 1..Len(df_all) : InSeq(id, CycleOf(df_all[m]))}}

\* C7: self-filter. For any designated participant id the filtered view holds
\* exactly the described cycles whose node sequence contains that id, with the
\* index and text they have in the full view.
C7_SelfFilter ==
  pc = "done" => \A id \in AgencyIds : SeqSet(df_user) = RowsWith(id)

\* C8: single retry of the fetch. The feed is fetched at most twice; the second
\* fetch is made exactly when the first returned no record, and after the sleep;
\* there is no third fetch; a run whose second fetch is empty too goes on to end
\* with zero cycles and no failure.
C8_SingleRetry ==
  /\ [][fetches' # fetches =>
          /\ fetches' = fetches + 1
          /\ fetches' <= 2
          /\ fetches' = 2 => (all_requests = <<>> /\ slept)]_vars
  /\ [](/\ fetches <= 2
        /\ fetches = 2 => slept
        /\ (pc \notin {"idle", "sleeping", "woken"} /\ fetches = 1) => all_requests # <<>>
        /\ (fetches = 2 /\ all_requests = <<>>) =>
             /\ pc # "failed"
             /\ all_cycles = <<>>
             /\ df_all = <<>>
             /\ pc # "done" => ENABLED Next)

\* Both fetches returned nothing and the run has ended.
C8_Witness ==
  /\ pc = "done"
  /\ fetches = 2
  /\ all_requests = <<>>
  /\ slept

\* C9: no partial marking on rejection. A conflict check that returns true leaves
\* the set of used pairs as it was; only a check that returns false adds pairs.
C9_NoPartialMarking ==
  [][(pc = "exhaustive" /\ stack # <<>>) =>
       /\ cand'.verdict = "offer_conflict" => used_offers' = used_offers
       /\ used_offers' # used_offers => cand'.verdict = "accepted"]_vars

\* The gifts of the cycles accepted so far.
AcceptedGifts == UNION {GiftsOf(all_cycles[n]) : n \in 1..Len(all_cycles)}

\* C10: rejection only for prior commitments. The conflict check turns a candidate
\* down only if the first-match (giver, asset key) of one of its steps was marked
\* by a different cycle accepted earlier in the run.
C10_RejectionOnlyForPriorCommitments ==
  cand.verdict = "offer_conflict" => GiftsOf(cand.cycle) \cap AcceptedGifts # {}

====
